---- MODULE Spec2Model ----
\* Model of the tunnel server of abcdlsj/pipe (server/handle.go): the Forward
\* Registry (Server.forwards), the Correlation Store (Server.connMap), the traffic
\* list (Server.traffics) and the goroutines that touch them: one per accepted raw
\* connection (Server.handle) and one per accepted inbound user connection (the
\* closure started in Server.handleForward).
EXTENDS Integers, Sequences, FiniteSets, TLC

\* ---------------------------------------------------------------- bounds
MaxConns == 3      \* raw connections accepted by Server.Run
MaxUsers == 2      \* inbound user connections reaching public listeners
UuidLen  == 2      \* characters of a uuid string (36 in the library)
MaxBytes == 1      \* bytes one direction of a splice may have carried
LayerLen == 2      \* layer.Len, scaled with UuidLen: a cid is the first
                   \* layer.Len-1 characters of the uuid string

Conns  == 1..MaxConns
Users  == 1..MaxUsers
Digits == {0, 1}
Uuids  == [1..UuidLen -> Digits]
Cids   == [1..(LayerLen - 1) -> Digits]
\* ports a Register or Cancel payload may decode to
Ports  == {-1, 0, 65535, 65536}
NoPort == -2
NoCid  == << >>
NoConn == 0
Traffic == [a : 0..MaxBytes, b : 0..MaxBytes]
NoReturn == [h |-> NoConn, path |-> "none"]
Return(h, path) == [h |-> h, path |-> path]

VARIABLES
  pc,          \* pc[h]: where the goroutine Server.handle(conn h) is
  returned,    \* the handler that returned in the last step, and by which path
  lport,       \* lport[h]: port the listener opened by handler h was asked for
  lopen,       \* lopen[h]: that listener is open
  forwards,    \* Server.forwards
  connMap,     \* Server.connMap: cid -> pending inbound connection
  traffics,    \* Server.traffics
  rid,         \* rid[h]: local rid of handleMessage
  uConn,       \* uConn[h]: local uConn of handleMessage
  closed,      \* closed[h]: raw connection h was closed by the server
  upc,         \* upc[u]: where inbound connection u / its goroutine is
  ufwd,        \* ufwd[u]: the Register handler whose listener accepted u
  cid,         \* cid[u]: local cid of the goroutine of u
  uclosed,     \* uclosed[u]: inbound connection u was closed by the server
  chan,        \* chan[h]: Exchange frames written on control connection h
  m            \* Server.m: the handler that holds the lock, NoConn when free

vars == <<pc, returned, lport, lopen, forwards, connMap, traffics, rid, uConn,
          closed, upc, ufwd, cid, uclosed, chan, m>>

hvars == <<pc, lport, lopen, rid, uConn, closed>>
uvars == <<upc, ufwd, cid, uclosed>>

\* ---------------------------------------------------------------- helpers

\* fmt.Sprintf(":%d", port)
Target(p) == <<":", p>>

\* a port check that is off by one at the upper end
isInvaliedPortOffByOne(port) == port < 0 \/ port > 65536

isInvaliedPort(port) == port < 0 \/ port > 65535

\* cid := uuid.NewString()[:layer.Len-1]
CidOf(s) == SubSeq(s, 1, LayerLen - 1)

\* net.Listen on a port some open listener of this process already holds fails;
\* port 0 asks the kernel for a free port and never collides.
PortInUse(p) == p # 0 /\ \E h \in Conns : lopen[h] /\ lport[h] = p

\* index of the first forward whose To equals to, 0 when there is none
FirstMatch(fs, to) ==
  IF \E i \in 1..Len(fs) : fs[i].To = to
  THEN CHOOSE i \in 1..Len(fs) :
         fs[i].To = to /\ \A j \in 1..(i - 1) : fs[j].To # to
  ELSE 0

RemoveAt(fs, i) == SubSeq(fs, 1, i - 1) \o SubSeq(fs, i + 1, Len(fs))

\* a delForward that removes index 0 when its scan finds nothing
delForwardDropsHead(fs, to) ==
  IF FirstMatch(fs, to) = 0
  THEN (IF fs = << >> THEN fs ELSE Tail(fs))
  ELSE RemoveAt(fs, FirstMatch(fs, to))

\* Server.delForward: the registry after the call
delForward(fs, to) ==
  IF FirstMatch(fs, to) = 0 THEN fs ELSE RemoveAt(fs, FirstMatch(fs, to))

\* Server.delForward: the listeners it closes (ff.uListener.Close())
delForwardCloses(fs, to) ==
  IF FirstMatch(fs, to) = 0 THEN {} ELSE {fs[FirstMatch(fs, to)].uListener}

\* a critical section that returns without releasing the lock
UnlockForgotten(h) == h

\* defer s.m.Unlock() of addForward, delForward and metric: the holder of
\* Server.m once the function called by handler h has returned
Unlock(h) == NoConn

\* Server.addForward
addForward(fs, f) == Append(fs, f)

\* a metric that puts the new record in front
metricPrepend(ts, t) == <<t>> \o ts

\* Server.metric
metric(ts, t) == Append(ts, t)

\* ConnMap.Add / ConnMap.Del / ConnMap.Get
ConnMapAdd(cm, k, u) == [cm EXCEPT ![k] = u]
ConnMapDel(cm, k)    == [cm EXCEPT ![k] = NoConn]
ConnMapGet(cm, k)    == cm[k]

\* ---------------------------------------------------------------- initial state
Init ==
  /\ pc = [h \in Conns |-> "new"]
  /\ returned = NoReturn
  /\ lport = [h \in Conns |-> NoPort]
  /\ lopen = [h \in Conns |-> FALSE]
  /\ forwards = << >>
  /\ connMap = [c \in Cids |-> NoConn]
  /\ traffics = << >>
  /\ rid = [h \in Conns |-> NoCid]
  /\ uConn = [h \in Conns |-> NoConn]
  /\ closed = [h \in Conns |-> FALSE]
  /\ upc = [u \in Users |-> "new"]
  /\ ufwd = [u \in Users |-> NoConn]
  /\ cid = [u \in Users |-> NoCid]
  /\ uclosed = [u \in Users |-> FALSE]
  /\ chan = [h \in Conns |-> << >>]
  /\ m = NoConn

\* layer.Read returns on connection h. Connections blocked in layer.Read are
\* interchangeable, so they are numbered in the order their first frame arrives.
Reading(h) ==
  /\ pc[h] = "read"
  /\ \A g \in Conns : g < h => pc[g] # "read"

\* ---------------------------------------------------------------- Server.Run
\* listener.Accept() returns connection h; go s.handle(conn)
RunAccept(h) ==
  /\ pc[h] = "new"
  /\ \A g \in Conns : g < h => pc[g] # "new"
  /\ pc' = [pc EXCEPT ![h] = "read"]
  /\ returned' = NoReturn
  /\ UNCHANGED <<lport, lopen, forwards, connMap, traffics, rid, uConn, closed,
                 uvars, chan, m>>

\* ---------------------------------------------------------------- Server.handle
\* layer.Read fails or yields no buffer: warn and return
HandleReadError(h) ==
  /\ Reading(h)
  /\ pc' = [pc EXCEPT ![h] = "done"]
  /\ returned' = Return(h, "read_error")
  /\ UNCHANGED <<lport, lopen, forwards, connMap, traffics, rid, uConn, closed,
                 uvars, chan, m>>

\* ---------------------------------------------------------------- Server.handleCancel
HandleCancel(h, rPort) ==
  /\ Reading(h)
  /\ pc' = [pc EXCEPT ![h] = "done"]
  /\ returned' = Return(h, IF FirstMatch(forwards, Target(rPort)) = 0
                          THEN "cancel_miss" ELSE "cancel_hit")
  /\ lopen' = [g \in Conns |->
        IF g \in delForwardCloses(forwards, Target(rPort)) THEN FALSE ELSE lopen[g]]
  /\ forwards' = delForward(forwards, Target(rPort))
  /\ m = NoConn
  /\ m' = Unlock(h)
  /\ UNCHANGED <<lport, connMap, traffics, rid, uConn, closed, uvars, chan>>

\* ---------------------------------------------------------------- Server.handleForward
\* isInvaliedPort(uPort): log and return
HandleForwardInvalid(h, uPort) ==
  /\ Reading(h)
  /\ isInvaliedPort(uPort)
  /\ pc' = [pc EXCEPT ![h] = "done"]
  /\ returned' = Return(h, "invalid_port")
  /\ UNCHANGED <<lport, lopen, forwards, connMap, traffics, rid, uConn, closed,
                 uvars, chan, m>>

\* net.Listen returns an error (the port is held by a listener of this process,
\* or by anything else on the host): log and return
HandleForwardListenError(h, uPort) ==
  /\ Reading(h)
  /\ ~isInvaliedPort(uPort)
  /\ pc' = [pc EXCEPT ![h] = "done"]
  /\ returned' = Return(h, IF PortInUse(uPort) THEN "port_in_use"
                          ELSE "listen_error")
  /\ UNCHANGED <<lport, lopen, forwards, connMap, traffics, rid, uConn, closed,
                 uvars, chan, m>>

\* net.Listen succeeds; defer uListener.Close() is armed
HandleForwardListen(h, uPort) ==
  /\ Reading(h)
  /\ ~isInvaliedPort(uPort)
  /\ ~PortInUse(uPort)
  /\ pc' = [pc EXCEPT ![h] = "listening"]
  /\ returned' = NoReturn
  /\ lport' = [lport EXCEPT ![h] = uPort]
  /\ lopen' = [lopen EXCEPT ![h] = TRUE]
  /\ UNCHANGED <<forwards, connMap, traffics, rid, uConn, closed, uvars, chan,
                 m>>

\* s.addForward(Forward{commuConn.RemoteAddr().String(), ":uPort", uListener})
HandleForwardAdd(h) ==
  /\ pc[h] = "listening"
  /\ pc' = [pc EXCEPT ![h] = "accept"]
  /\ returned' = NoReturn
  /\ forwards' = addForward(forwards,
                   [From |-> h, To |-> Target(lport[h]), uListener |-> h])
  /\ m = NoConn
  /\ m' = Unlock(h)
  /\ UNCHANGED <<lport, lopen, connMap, traffics, rid, uConn, closed, uvars, chan>>

\* uListener.Accept() returns inbound connection u; go func() {...}()
HandleForwardAccept(h, u) ==
  /\ pc[h] = "accept"
  /\ lopen[h]
  /\ upc[u] = "new"
  /\ \A v \in Users : v < u => upc[v] # "new"
  /\ upc' = [upc EXCEPT ![u] = "spawned"]
  /\ ufwd' = [ufwd EXCEPT ![u] = h]
  /\ returned' = NoReturn
  /\ UNCHANGED <<hvars, forwards, connMap, traffics, cid, uclosed, chan, m>>

\* an accept loop that leaves only on a failure of an open listener: Accept on
\* a closed listener never returns
HandleForwardAcceptErrorOnlyOpen(h) ==
  /\ pc[h] = "accept"
  /\ lopen[h]
  /\ pc' = [pc EXCEPT ![h] = "done"]
  /\ returned' = Return(h, "accept_error")
  /\ lopen' = [lopen EXCEPT ![h] = FALSE]
  /\ lport' = [lport EXCEPT ![h] = NoPort]
  /\ UNCHANGED <<forwards, connMap, traffics, rid, uConn, closed, uvars, chan, m>>

\* uListener.Accept() returns an error (the listener was closed, or the accept
\* itself failed): return, the deferred uListener.Close() runs and the locals
\* are gone
HandleForwardAcceptError(h) ==
  /\ pc[h] = "accept"
  /\ pc' = [pc EXCEPT ![h] = "done"]
  /\ returned' = Return(h, IF lopen[h] THEN "accept_error" ELSE "listener_closed")
  /\ lopen' = [lopen EXCEPT ![h] = FALSE]
  /\ lport' = [lport EXCEPT ![h] = NoPort]
  /\ UNCHANGED <<forwards, connMap, traffics, rid, uConn, closed, uvars, chan,
                 m>>

\* uuid.NewString() never returns a string it returned before: s can be drawn
\* for one more goroutine while fewer cids with its prefix have been cut than
\* there are uuid strings with that prefix.
FreshUuid(s) ==
  Cardinality({v \in Users : cid[v] = CidOf(s)})
    < Cardinality({t \in Uuids : CidOf(t) = CidOf(s)})

\* a goroutine that cuts the cid and goes on to send it without the put
NotifyAddNoPut(u, s) ==
  /\ upc[u] = "spawned"
  /\ FreshUuid(s)
  /\ cid' = [cid EXCEPT ![u] = CidOf(s)]
  /\ upc' = [upc EXCEPT ![u] = "stored"]
  /\ returned' = NoReturn
  /\ UNCHANGED <<hvars, forwards, connMap, traffics, ufwd, uclosed, chan, m>>

\* the goroutine of inbound connection u: cid := uuid.NewString()[:layer.Len-1];
\* s.addUserConn(cid, userConn)
NotifyAdd(u, s) ==
  /\ upc[u] = "spawned"
  /\ FreshUuid(s)
  /\ cid' = [cid EXCEPT ![u] = CidOf(s)]
  /\ connMap' = ConnMapAdd(connMap, CidOf(s), u)
  /\ upc' = [upc EXCEPT ![u] = "stored"]
  /\ returned' = NoReturn
  /\ UNCHANGED <<hvars, forwards, traffics, ufwd, uclosed, chan, m>>

\* layer.ExchangeMsg.Send(commuConn, cid) writes the frame; the goroutine ends
NotifySend(u) ==
  /\ upc[u] = "stored"
  /\ upc' = [upc EXCEPT ![u] = "sent"]
  /\ chan' = [chan EXCEPT ![ufwd[u]] = Append(@, [cid |-> cid[u], user |-> u])]
  /\ returned' = NoReturn
  /\ UNCHANGED <<hvars, forwards, connMap, traffics, ufwd, cid, uclosed, m>>

\* layer.ExchangeMsg.Send(commuConn, cid) fails (the control connection is
\* broken); the error is dropped and the goroutine ends
NotifySendError(u) ==
  /\ upc[u] = "stored"
  /\ upc' = [upc EXCEPT ![u] = "send_error"]
  /\ returned' = NoReturn
  /\ UNCHANGED <<hvars, forwards, connMap, traffics, ufwd, cid, uclosed, chan,
                 m>>

\* ---------------------------------------------------------------- Server.handleMessage
\* a handleMessage that does not return on !ok and records a traffic entry
HandleMessageMissMetric(h, c) ==
  /\ Reading(h)
  /\ ConnMapGet(connMap, c) = NoConn
  /\ pc' = [pc EXCEPT ![h] = "done"]
  /\ returned' = Return(h, "exchange_miss")
  /\ traffics' = metric(traffics, [a |-> 0, b |-> 0])
  /\ m = NoConn
  /\ m' = Unlock(h)
  /\ UNCHANGED <<lport, lopen, forwards, connMap, rid, uConn, closed, uvars,
                 chan>>

\* s.getUserConn(rid) reports !ok: return
HandleMessageMiss(h, c) ==
  /\ Reading(h)
  /\ ConnMapGet(connMap, c) = NoConn
  /\ pc' = [pc EXCEPT ![h] = "done"]
  /\ returned' = Return(h, "exchange_miss")
  /\ UNCHANGED <<lport, lopen, forwards, connMap, traffics, rid, uConn, closed,
                 uvars, chan, m>>

\* s.getUserConn(rid) finds uConn; defer s.delUserConn(rid); proxy.P starts
HandleMessageGet(h, c) ==
  /\ Reading(h)
  /\ ConnMapGet(connMap, c) # NoConn
  /\ pc' = [pc EXCEPT ![h] = "splice"]
  /\ returned' = NoReturn
  /\ rid' = [rid EXCEPT ![h] = c]
  /\ uConn' = [uConn EXCEPT ![h] = ConnMapGet(connMap, c)]
  /\ UNCHANGED <<lport, lopen, forwards, connMap, traffics, closed, uvars, chan,
                 m>>

\* proxy.P(conn, uConn) returns with both connections closed and the byte counts
\* t, which s.metric appends
HandleMessageMetric(h, t) ==
  /\ pc[h] = "splice"
  /\ pc' = [pc EXCEPT ![h] = "del"]
  /\ returned' = NoReturn
  /\ closed' = [closed EXCEPT ![h] = TRUE]
  /\ uclosed' = [uclosed EXCEPT ![uConn[h]] = TRUE]
  /\ traffics' = metric(traffics, t)
  /\ m = NoConn
  /\ m' = Unlock(h)
  /\ UNCHANGED <<lport, lopen, forwards, connMap, rid, uConn, upc, ufwd, cid,
                 chan>>

\* the deferred s.delUserConn(rid); the handler returns and its locals are gone
HandleMessageDel(h) ==
  /\ pc[h] = "del"
  /\ pc' = [pc EXCEPT ![h] = "done"]
  /\ returned' = Return(h, "spliced")
  /\ connMap' = ConnMapDel(connMap, rid[h])
  /\ rid' = [rid EXCEPT ![h] = NoCid]
  /\ uConn' = [uConn EXCEPT ![h] = NoConn]
  /\ UNCHANGED <<lport, lopen, forwards, traffics, closed, uvars, chan, m>>

\* ---------------------------------------------------------------- specification
Next ==
  \/ \E h \in Conns : RunAccept(h)
  \/ \E h \in Conns : HandleReadError(h)
  \/ \E h \in Conns, p \in Ports : HandleCancel(h, p)
  \/ \E h \in Conns, p \in Ports : HandleForwardInvalid(h, p)
  \/ \E h \in Conns, p \in Ports : HandleForwardListenError(h, p)
  \/ \E h \in Conns, p \in Ports : HandleForwardListen(h, p)
  \/ \E h \in Conns : HandleForwardAdd(h)
  \/ \E h \in Conns, u \in Users : HandleForwardAccept(h, u)
  \/ \E h \in Conns : HandleForwardAcceptError(h)
  \/ \E u \in Users, s \in Uuids : NotifyAdd(u, s)
  \/ \E u \in Users : NotifySend(u)
  \/ \E u \in Users : NotifySendError(u)
  \/ \E h \in Conns, c \in Cids : HandleMessageMiss(h, c)
  \/ \E h \in Conns, c \in Cids : HandleMessageGet(h, c)
  \/ \E h \in Conns, t \in Traffic : HandleMessageMetric(h, t)
  \/ \E h \in Conns : HandleMessageDel(h)

Spec == Init /\ [][Next]_vars

\* What the Go scheduler guarantees: a goroutine that can run does run. The steps
\* that wait for a peer (a first frame, an inbound connection, the end of a
\* splice, a spontaneous accept failure) carry no fairness.
Fairness ==
  /\ \A h \in Conns : WF_vars(HandleForwardAdd(h))
  /\ \A h \in Conns : WF_vars(~lopen[h] /\ HandleForwardAcceptError(h))
  /\ \A h \in Conns : WF_vars(HandleMessageDel(h))
  /\ \A u \in Users : WF_vars(\E s \in Uuids : NotifyAdd(u, s))
  /\ \A u \in Users : WF_vars(NotifySend(u) \/ NotifySendError(u))

FairSpec == Spec /\ Fairness

\* the one guarantee an accept loop needs to end: Accept on a closed listener
\* returns
FairAcceptSpec ==
  Spec /\ \A h \in Conns : WF_vars(~lopen[h] /\ HandleForwardAcceptError(h))

TypeOK ==
  /\ pc \in [Conns -> {"new", "read", "listening", "accept", "splice", "del",
                       "done"}]
  /\ lport \in [Conns -> Ports \cup {NoPort}]
  /\ lopen \in [Conns -> BOOLEAN]
  /\ connMap \in [Cids -> Users \cup {NoConn}]
  /\ uConn \in [Conns -> Users \cup {NoConn}]
  /\ upc \in [Users -> {"new", "spawned", "stored", "sent", "send_error"}]
  /\ ufwd \in [Users -> Conns \cup {NoConn}]
  /\ traffics \in Seq(Traffic)

\* ---------------------------------------------------------------- properties

\* handlers that hold an inbound connection obtained from the store
Splicing(h) == uConn[h] # NoConn

\* inbound connections put into the store and not yet handed to a splice
Pending(u) ==
  /\ upc[u] \in {"stored", "sent", "send_error"}
  /\ ~uclosed[u]
  /\ \A h \in Conns : uConn[h] # u

Rejected == {"invalid_port", "listen_error", "port_in_use"}

\* C1: a correlation id is claimed at most once: no inbound connection is ever
\* handed to two splices, whatever the interleaving of the claims.
C1_ClaimedAtMostOnce ==
  \A g, h \in Conns :
    (g # h /\ Splicing(g) /\ Splicing(h)) => uConn[g] # uConn[h]

\* C2: every inbound connection whose notification was sent has exactly one
\* Exchange frame on its forward's control channel, and no two frames of one
\* control channel carry the same correlation id.
C2_OneFreshExchange ==
  /\ \A u \in Users : upc[u] = "sent" =>
       Cardinality({i \in 1..Len(chan[ufwd[u]]) : chan[ufwd[u]][i].user = u}) = 1
  /\ \A h \in Conns : \A i, j \in 1..Len(chan[h]) :
       i # j => chan[h][i].cid # chan[h][j].cid

\* C3: two inbound connections of one forward that are pending at the same time
\* are stored under distinct ids, and a claim of id X holds the inbound
\* connection X was cut for.
C3_NoCrossTalk ==
  /\ \A u, v \in Users :
       (u # v /\ Pending(u) /\ Pending(v) /\ ufwd[u] = ufwd[v]) => cid[u] # cid[v]
  /\ \A h \in Conns : Splicing(h) => cid[uConn[h]] = rid[h]

\* C4: once a Cancel for a target that has a forward in the registry is handled,
\* the registry holds no forward with that target and every listener that was
\* registered under it is closed.
C4_CancelRemoves ==
  [][\A h \in Conns, p \in Ports :
       (HandleCancel(h, p) /\ FirstMatch(forwards, Target(p)) # 0) =>
         /\ \A i \in 1..Len(forwards') : forwards'[i].To # Target(p)
         /\ \A i \in 1..Len(forwards) :
              forwards[i].To = Target(p) => ~lopen'[forwards[i].uListener]]_vars

\* C5: a Cancel for a target no forward of the registry has changes neither the
\* registry (contents and order), nor any listener, nor the store, and the
\* handler returns normally.
C5_CancelMissNoop ==
  [][\A h \in Conns, p \in Ports :
       (HandleCancel(h, p) /\ \A i \in 1..Len(forwards) : forwards[i].To # Target(p)) =>
         /\ forwards' = forwards
         /\ lopen' = lopen
         /\ lport' = lport
         /\ connMap' = connMap
         /\ pc'[h] = "done"]_vars

C5_Witness ==
  /\ returned.path = "cancel_miss"
  /\ Len(forwards) > 0
  /\ \E g \in Conns : lopen[g]
  /\ \E c \in Cids : connMap[c] # NoConn

\* C6: an Exchange claim that finds no entry leaves the store as it was and
\* appends no traffic record.
C6_MissLeavesStore ==
  [][returned'.path = "exchange_miss" =>
       (connMap' = connMap /\ traffics' = traffics)]_vars

C6_Witness ==
  /\ returned.path = "exchange_miss"
  /\ \E c \in Cids : connMap[c] # NoConn
  /\ \E c \in Cids : connMap[c] = NoConn

\* C7: when the handler of an Exchange claim that found no entry returns, the
\* claiming connection is closed.
C7_MissCloses ==
  returned.path = "exchange_miss" => closed[returned.h]

\* C8: a rejected Register changes neither the registry nor any listener and
\* leaves no listener of its own, and no listener is ever bound for a port
\* outside 0..65535 or for a port another open listener holds.
C8_RejectedRegister ==
  [][/\ returned'.path \in Rejected =>
          /\ forwards' = forwards
          /\ lopen' = lopen
          /\ lport' = lport
          /\ ~lopen'[returned'.h]
     /\ \A h \in Conns : lopen'[h] => lport'[h] \in 0..65535
     /\ \A g, h \in Conns :
          (g # h /\ lopen'[g] /\ lopen'[h] /\ lport'[g] # 0) => lport'[g] # lport'[h]]_vars

C8_Witness ==
  /\ returned.path = "port_in_use"
  /\ \E i \in 1..Len(forwards) : lopen[forwards[i].uListener]

\* C9: when the handler of a rejected Register returns, the requesting
\* connection has been closed.
C9_RejectedCloses ==
  returned.path \in Rejected => closed[returned.h]

\* C10: every forward in the registry has an open listener.
C10_RegisteredIsOpen ==
  \A i \in 1..Len(forwards) : lopen[forwards[i].uListener]

\* the forward whose listener handler h opened is in the registry
Registered(h) == \E i \in 1..Len(forwards) : forwards[i].uListener = h

\* C11: every entry of the store is eventually removed, whether or not a data
\* connection ever claims it.
C11_EntryEventuallyRemoved ==
  \A c \in Cids : (connMap[c] # NoConn) ~> (connMap[c] = NoConn)

\* C12: once the Exchange frame of an inbound connection could not be sent, the
\* forward it came in on is eventually torn down: its listener closed and the
\* forward out of the registry.
C12_SendErrorTearsDown ==
  \A u \in Users :
    (upc[u] = "send_error") ~>
      (ufwd[u] \in Conns /\ ~lopen[ufwd[u]] /\ ~Registered(ufwd[u]))

\* C13: an accept loop whose listener a Cancel has closed eventually exits.
C13_AcceptLoopExits ==
  \A h \in Conns : (pc[h] = "accept" /\ ~lopen[h]) ~> (pc[h] = "done")

C13_Witness ==
  /\ returned.path = "listener_closed"
  /\ ~Registered(returned.h)

\* C14: every finished splice has appended exactly one traffic record, in the
\* step in which proxy.P returned, and no step changes, reorders or removes a
\* record that is already in the list.
C14_TrafficAppendOnly ==
  [][/\ SubSeq(traffics', 1, Len(traffics)) = traffics
     /\ Len(traffics') = Len(traffics)
          + Cardinality({h \in Conns : closed'[h] /\ ~closed[h]})
     /\ Len(traffics') = Cardinality({h \in Conns : closed'[h]})]_vars

C14_Witness ==
  /\ returned.path = "spliced"
  /\ Len(traffics) = 2
  /\ traffics[1] # traffics[2]

\* handler h waits in layer.Read, in uListener.Accept or in proxy.P
Blocked(h) == pc[h] \in {"read", "accept", "splice"}

C16_PutBeforeSend ==
  \A u \in Users : upc[u] = "sent" =>
    \/ connMap[cid[u]] # NoConn
    \/ \E h \in Conns : rid[h] = cid[u]
    \/ \E v \in Users : cid[v] = cid[u] /\ uclosed[v]

C16_Witness ==
  \E u \in Users : upc[u] = "sent" /\ connMap[cid[u]] = u

\* a goroutine of u puts its entry or sends its frame in this step
Notifies(u) == upc'[u] # upc[u] /\ upc'[u] \in {"stored", "sent"}

\* C17: once a Cancel has removed a forward, no entry is put into the store and
\* no Exchange frame is sent for an inbound connection of that forward.
C17_NoNotifyAfterCancel ==
  [][\A u \in Users : Notifies(u) => Registered(ufwd[u])]_vars

\* C18: no two forwards of the registry have the same target.
C18_DistinctTargets ==
  \A i, j \in 1..Len(forwards) : i # j => forwards[i].To # forwards[j].To

\* C19: once a Cancel for a registered target has been handled, the port can be
\* bound again and no forward with that target is left, so that the next
\* Register for it is the only forward with that target.
C19_PortReusable ==
  [][\A h \in Conns, p \in Ports :
       (HandleCancel(h, p) /\ FirstMatch(forwards, Target(p)) # 0) =>
         /\ \A g \in Conns : ~(p # 0 /\ lopen'[g] /\ lport'[g] = p)
         /\ FirstMatch(forwards', Target(p)) = 0]_vars

====
